---- MODULE Spec2Model ----
(***************************************************************************)
(* Dynamic backgrounds plugin for Obsidian: the four iterations of the     *)
(* plugin kept in the repository, each as its own state machine over one   *)
(* shared model of the host's UI tree.                                     *)
(*                                                                         *)
(*   SpecDebounced, SpecDebounceTimed  src/unnamed/part_001 lines 1-198    *)
(*   SpecLoad (loadSettings alone)     src/unnamed/part_001 lines 1-198    *)
(*   SpecInterval                      src/unnamed/part_001 lines 396-707  *)
(*   SpecCycle                         src/unnamed/part_000                *)
(*   SpecMain                          src/main.ts                         *)
(***************************************************************************)
EXTENDS Integers, Sequences, FiniteSets, TLC

VARIABLES
    layout,     \* which host UI tree the plugin runs in (index into Layouts)
    dom,        \* the live UI tree: children, style.backgroundImage, marker class
    settings,   \* this.settings
    persisted,  \* the content of data.json (NoData: no file yet)
    pc,         \* plugin lifecycle: "idle", "loading", "loaded", "unloaded"
    tabOpen,    \* the setting tab is registered with the host
    listening,  \* the active-leaf-change listener is registered
    observers,  \* connected MutationObservers, each with its undelivered records
    timers,     \* the host's table of pending timeouts and active intervals
    nextTimerId,\* the handle the next setTimeout / setInterval returns
    timeout,    \* the closure variable of debounce()
    intervalId, \* this.intervalId
    currentBackgroundIndex, \* this.currentBackgroundIndex (main.ts: the closure's index)
    suspended,  \* setting handlers suspended at their await of saveSettings
    now,        \* the clock, in milliseconds
    edits,      \* how many setting changes the user has made
    lastOp,     \* the operation that ran last
    hist        \* what a run is remembered by (inputs, calls, invocations, ticks)

vars == <<layout, dom, settings, persisted, pc, tabOpen, listening, observers,
          timers, nextTimerId, timeout, intervalId, currentBackgroundIndex,
          suspended, now, edits, lastOp, hist>>

----------------------------------------------------------------------------
(* JavaScript values the model needs beside the naturals. *)

Undefined == -1
NaN == -2
\* element.style.backgroundImage of an element the plugin never styled: ''
NoImage == 0

(* Bounds of the model. *)
\* setting changes the user makes: the debounced variant, the interval variants
MaxChanges == 1
MaxEdits == 2
\* active-leaf-change events (SpecDebounced), calls of the debounced function
\* (SpecDebounceTimed)
MaxLeafChanges == 1
MaxCalls == 5
\* the clock stops here
MaxTime == 600
\* restyle passes of the interval + opacity variant: each leaves an observer
MaxObservers == 2
\* timer ticks in a row (SpecCycle)
MaxTicks == 3

----------------------------------------------------------------------------
(* The host's UI tree.  An element has one of the classes the plugins
   select on; the host decides where it sits.  Kanban elements are inserted
   by another plugin after the initial layout. *)

ViewContent == "view-content"
TabHeaderContainer == "workspace-tab-header-container"
TabHeader == "workspace-tab-header"
ViewHeader == "view-header"
WorkspaceLeaf == "workspace-leaf"
KanbanLane == "kanban-plugin__lane"
KanbanItem == "kanban-plugin__item-title-wrapper"

\* cls[e]: the class of element e; parent[e]: the node the host puts it under
Layouts ==
    << \* a pane whose content holds a kanban lane
       [cls    |-> <<WorkspaceLeaf, ViewContent, KanbanLane>>,
        parent |-> <<0, 1, 2>>],
       \* a tab strip and a view header
       [cls    |-> <<TabHeaderContainer, TabHeader, ViewHeader>>,
        parent |-> <<0, 1, 0>>],
       \* a kanban lane with two cards
       [cls    |-> <<KanbanLane, KanbanItem, KanbanItem>>,
        parent |-> <<0, 1, 1>>],
       \* two views side by side
       [cls    |-> <<ViewContent, ViewContent>>,
        parent |-> <<0, 0>>] >>

ElemsOf(l) == 1..Len(Layouts[l].cls)
Elems == ElemsOf(layout)
Body == 0
NodesOf(l) == {Body} \cup ElemsOf(l)
Nodes == NodesOf(layout)

Cls(e) == Layouts[layout].cls[e]
HostParent(e) == Layouts[layout].parent[e]
IsKanban(e) == Cls(e) \in {KanbanLane, KanbanItem}

El(e) == [kind |-> "el", id |-> e, alpha |-> 0]
\* <div class="...overlay" style="background-color: rgba(255,255,255,alpha)">,
\* alpha in tenths
Ov(a) == [kind |-> "ov", id |-> 0, alpha |-> a]

RECURSIVE Walk(_, _)
\* the elements below a list of child nodes, in document order
Walk(ch, items) ==
    IF items = <<>> THEN <<>>
    ELSE LET h == Head(items)
         IN (IF h.kind = "el" THEN <<h.id>> \o Walk(ch, ch[h.id]) ELSE <<>>)
            \o Walk(ch, Tail(items))

DocOrder(ch) == Walk(ch, ch[Body])
Attached(ch, n) == n = Body \/ LET o == DocOrder(ch) IN \E i \in DOMAIN o : o[i] = n

\* document.querySelectorAll("." + class)
querySelectorAll(ch, class) == SelectSeq(DocOrder(ch), LAMBDA e : Cls(e) = class)

\* a query that never finds an overlay
querySelectorOverlay_Blind(ch, e) == <<>>

RECURSIVE FirstOverlay(_, _, _)
\* the first overlay below node n in document order, from child i on, as
\* <<parent, position>>; <<>> when there is none
FirstOverlay(ch, n, i) ==
    IF i > Len(ch[n]) THEN <<>>
    ELSE LET h == ch[n][i]
         IN IF h.kind = "ov" THEN <<n, i>>
            ELSE LET r == FirstOverlay(ch, h.id, 1)
                 IN IF r # <<>> THEN r ELSE FirstOverlay(ch, n, i + 1)

\* element.querySelector(".<overlay class>"): any descendant, not only a child
querySelectorOverlay(ch, e) == FirstOverlay(ch, e, 1)

RemoveAt(s, i) == SubSeq(s, 1, i - 1) \o SubSeq(s, i + 1, Len(s))

OverlayChildren(ch, e) == {i \in DOMAIN ch[e] : ch[e][i].kind = "ov"}
CountOverlays(ch) ==
    Cardinality({p \in UNION {{<<n, i>> : i \in DOMAIN ch[n]} : n \in Nodes} :
                    ch[p[1]][p[2]].kind = "ov"})

\* the tree the host has built when the plugin is enabled
InitialChildren(l) ==
    [n \in NodesOf(l) |->
        LET kids == SelectSeq([i \in ElemsOf(l) |-> i],
                       LAMBDA e : /\ Layouts[l].parent[e] = n
                                  /\ Layouts[l].cls[e] \notin {KanbanLane, KanbanItem})
        IN [i \in DOMAIN kids |-> El(kids[i])]]

InitialDom(l) ==
    [children |-> InitialChildren(l),
     bgImage  |-> [e \in ElemsOf(l) |-> NoImage],
     marked   |-> [e \in ElemsOf(l) |-> FALSE]]

\* MutationObserver callbacks run at the microtask checkpoint that ends the
\* task that changed the tree: no other task starts while records wait
NoRecords == \A i \in DOMAIN observers : observers[i].pending = 0

\* the host inserts several nodes in one task: its next insertion does not
\* wait for the records of the one before
HostTask == NoRecords \/ lastOp = "insert"

\* an observer that is told of every pass, whether it appended a node or not
RecordsOf_EveryPass(before, after) == 1

\* the childList records a pass of the plugin queues: one per overlay appended
RecordsOf(before, after) ==
    CountOverlays(after.children) - CountOverlays(before.children)

\* every connected observer gets one childList record per inserted node
Notify(obs, k) == [i \in DOMAIN obs |-> [obs[i] EXCEPT !.pending = @ + k]]

----------------------------------------------------------------------------
(* Plain JavaScript. *)

\* obj[key], undefined for a key the object does not have
Get(obj, key) == IF key \in DOMAIN obj THEN obj[key] ELSE Undefined

\* list[i] of a JavaScript array (i counts from 0): undefined outside the array
At(list, i) == IF i \in 0..(Len(list) - 1) THEN list[i + 1] ELSE Undefined

\* Object.assign({}, defaults, data): a shallow merge, key by key at top level
ObjectAssign(defaults, data) ==
    [k \in DOMAIN defaults \cup DOMAIN data |->
        IF k \in DOMAIN data THEN data[k] ELSE defaults[k]]

\* the values Math.floor(Math.random() * len) can take
RandomIndex(len) == IF len = 0 THEN {0} ELSE 0..(len - 1)

InSeq(x, s) == \E i \in DOMAIN s : s[i] = x

\* loadData() of a vault with no data.json yields null; an object with no key
\* merges the same way
NoData == <<>>

\* the handle of a timer that was never set
NoTimer == Undefined

\* a clear that clears nothing
ClearTimer_Noop(table, handle) == table

\* clearTimeout(handle) / clearInterval(handle)
ClearTimer(table, handle) == {t \in table : t.id # handle}

----------------------------------------------------------------------------
(* The debounced variant: src/unnamed/part_001 lines 1-198. *)

DEFAULT_SETTINGS_Debounced ==
    [backgrounds     |-> <<1, 2, 3>>,
     opacitySettings |-> [viewContent        |-> 5,
                          tabHeaderContainer |-> 4,
                          tabHeader          |-> 3,
                          workspaceLeaf      |-> 6,
                          kanbanItem         |-> 7]]

DebounceWait == 300
\* the clock's grain
TimeStep == DebounceWait \div 3

\* what the user can type into the text area, word by word: 1, 2, 3 are
\* well-formed URLs, InvalidEntry a word that new URL() rejects
InvalidEntry == 0
Comma == 10
Space == 11
\* a text of several words has no name of its own here
Unnamed == 12
BackgroundInputs ==
    {<<InvalidEntry>>,
     <<Space, 2, Space>>,
     <<1, Comma, Space, InvalidEntry, Comma, Space, 3, Space>>}
OpacityInputs == {9}
OpacityKeys_Debounced == DOMAIN DEFAULT_SETTINGS_Debounced.opacitySettings
\* the sliders the user moves
SlidersMoved == {"viewContent", "kanbanItem"}
LeafArgs == {1, 2}

PersistedChoices_Debounced == {NoData, [backgrounds |-> <<>>]}

RECURSIVE split(_)
\* value.split(','): the pieces between the commas, empty ones too
split(value) ==
    IF \A i \in DOMAIN value : value[i] # Comma THEN <<value>>
    ELSE LET k == CHOOSE i \in DOMAIN value :
                      value[i] = Comma /\ \A j \in 1..(i - 1) : value[j] # Comma
         IN <<SubSeq(value, 1, k - 1)>> \o split(SubSeq(value, k + 1, Len(value)))

\* url.trim() left out
trim_Noop(url) == url

RECURSIVE trim(_)
\* url.trim()
trim(url) ==
    IF url # <<>> /\ Head(url) = Space THEN trim(Tail(url))
    ELSE IF url # <<>> /\ url[Len(url)] = Space
         THEN trim(SubSeq(url, 1, Len(url) - 1))
         ELSE url

\* new URL(url) does not throw: the parser strips the blanks around the
\* text, and what is left has to be one well-formed URL
isValidUrl(url) == Len(trim(url)) = 1 /\ trim(url)[1] # InvalidEntry

\* a stored string, as the rest of the model names it
Word(url) == IF Len(url) = 1 THEN url[1] ELSE Unnamed

\* value.split(',').map(url => url.trim()).filter(url => this.isValidUrl(url))
ParseBackgrounds(value) ==
    LET pieces == split(value)
        urls == [i \in DOMAIN pieces |-> trim(pieces[i])]
        kept == SelectSeq(urls, isValidUrl)
    IN [i \in DOMAIN kept |-> Word(kept[i])]

getRandomBackground(s, r) == At(s.backgrounds, r)

RECURSIVE ApplyEach_Debounced(_, _, _, _)
ApplyEach_Debounced(d, els, url, opacity) ==
    IF els = <<>> THEN d
    ELSE LET e == Head(els)
             styled == [d EXCEPT !.bgImage[e] = url]
             done == IF querySelectorOverlay(styled.children, e) = <<>>
                     THEN [styled EXCEPT !.children[e] = Append(@, Ov(opacity))]
                     ELSE styled
         IN ApplyEach_Debounced(done, Tail(els), url, opacity)

\* r: the random index this call draws
applyBackgroundAndOverlay_Debounced(d, s, els, opacity, r) ==
    ApplyEach_Debounced(d, els, getRandomBackground(s, r), opacity)

AddMarker(d, els) == [d EXCEPT !.marked = [e \in Elems |-> @[e] \/ InSeq(e, els)]]

Selectors_Debounced(s) ==
    << [selector |-> ViewContent, opacity |-> Get(s.opacitySettings, "viewContent")],
       [selector |-> TabHeaderContainer,
        opacity  |-> Get(s.opacitySettings, "tabHeaderContainer")],
       [selector |-> TabHeader, opacity |-> Get(s.opacitySettings, "tabHeader")],
       [selector |-> ViewHeader, opacity |-> Get(s.opacitySettings, "tabHeader")],
       [selector |-> WorkspaceLeaf, opacity |-> Get(s.opacitySettings, "workspaceLeaf")] >>

RECURSIVE RestyleFrom_Debounced(_, _, _, _)
RestyleFrom_Debounced(d, s, rnd, i) ==
    IF i > Len(Selectors_Debounced(s)) THEN d
    ELSE LET sel == Selectors_Debounced(s)[i]
             els == querySelectorAll(d.children, sel.selector)
         IN RestyleFrom_Debounced(
                applyBackgroundAndOverlay_Debounced(AddMarker(d, els), s, els,
                                                    sel.opacity, rnd[i]),
                s, rnd, i + 1)

\* rnd[i]: the random index the i-th applyBackgroundAndOverlay call draws
updateBackgrounds_Debounced(d, s, rnd) == RestyleFrom_Debounced(d, s, rnd, 1)

\* the draws of the applyBackgroundAndOverlay calls that style the given
\* selectors, one after the other; the draw of a call that is handed no
\* element is never used, and stands as 0
RandomDraws(d, s, selectors) ==
    LET used == {i \in DOMAIN selectors :
                    \E e \in Elems : Cls(e) = selectors[i] /\ Attached(d.children, e)}
    IN {[i \in DOMAIN selectors |-> IF i \in used THEN r[i] ELSE 0] :
            r \in [used -> RandomIndex(Len(s.backgrounds))]}

TargetSelectors == <<ViewContent, TabHeaderContainer, TabHeader, ViewHeader, WorkspaceLeaf>>
KanbanSelectors == <<KanbanLane, KanbanItem>>

\* the body of handleMutations' loop for one record with added nodes
KanbanPass_Debounced(d, s, rnd) ==
    LET kanbanLane == querySelectorAll(d.children, KanbanLane)
        afterLanes == IF Len(kanbanLane) > 0
                      THEN applyBackgroundAndOverlay_Debounced(
                               AddMarker(d, kanbanLane), s, kanbanLane,
                               Get(s.opacitySettings, "viewContent"), rnd[1])
                      ELSE d
        kanbanItems == querySelectorAll(afterLanes.children, KanbanItem)
    IN IF Len(kanbanItems) > 0
       THEN applyBackgroundAndOverlay_Debounced(
                AddMarker(afterLanes, kanbanItems), s, kanbanItems,
                Get(s.opacitySettings, "kanbanItem"), rnd[2])
       ELSE afterLanes

RECURSIVE handleMutations_Debounced(_, _, _, _)
\* n records, each with added nodes; rnds[j]: the draws of the j-th record's pass
handleMutations_Debounced(d, s, n, rnds) ==
    IF n = 0 THEN d
    ELSE handleMutations_Debounced(KanbanPass_Debounced(d, s, Head(rnds)), s, n - 1,
                                   Tail(rnds))

RECURSIVE RemoveEach(_, _)
RemoveEach(d, els) ==
    IF els = <<>> THEN d
    ELSE LET e == Head(els)
             o == querySelectorOverlay(d.children, e)
             bare == [d EXCEPT !.bgImage[e] = NoImage, !.marked[e] = FALSE]
             done == IF o = <<>> THEN bare
                     ELSE [bare EXCEPT !.children[o[1]] = RemoveAt(@, o[2])]
         IN RemoveEach(done, Tail(els))

removeBackgrounds(d) ==
    RemoveEach(d, SelectSeq(DocOrder(d.children), LAMBDA e : d.marked[e]))

\* the debounced function without its clearTimeout
DebouncedCall_NoClear(args) ==
    /\ timers' = timers \cup {[id |-> nextTimerId, kind |-> "timeout",
                                due |-> now + DebounceWait, args |-> args]}
    /\ timeout' = nextTimerId
    /\ nextTimerId' = nextTimerId + 1

\* (...args) => { clearTimeout(timeout); timeout = setTimeout(() => func(...args), wait) }
DebouncedCall(args) ==
    /\ timers' = ClearTimer(timers, timeout)
                 \cup {[id |-> nextTimerId, kind |-> "timeout",
                        due |-> now + DebounceWait, args |-> args]}
    /\ timeout' = nextTimerId
    /\ nextTimerId' = nextTimerId + 1

\* a restyle pass of the plugin as one step: the tree changes, and every
\* connected observer is told of the overlays that were appended
Restyled(d) ==
    /\ dom' = d
    /\ observers' = Notify(observers, RecordsOf(dom, d))

OnloadBegin_Debounced ==
    /\ pc = "idle"
    /\ pc' = "loading"
    /\ lastOp' = "onload"
    /\ UNCHANGED <<layout, dom, settings, persisted, tabOpen, listening, observers,
                   timers, nextTimerId, timeout, intervalId, currentBackgroundIndex,
                   suspended, now, edits>>

OnloadResume_Debounced ==
    /\ pc = "loading"
    /\ LET s == ObjectAssign(DEFAULT_SETTINGS_Debounced, persisted)
       IN /\ settings' = s
          /\ \E rnd \in RandomDraws(dom, s, TargetSelectors) :
                LET d == updateBackgrounds_Debounced(dom, s, rnd)
                IN /\ dom' = d
                   /\ observers' = <<[url |-> Undefined,
                                      pending |-> RecordsOf(dom, d)]>>
    /\ tabOpen' = TRUE
    /\ listening' = TRUE
    /\ pc' = "loaded"
    /\ lastOp' = "updateBackgrounds"
    /\ UNCHANGED <<layout, persisted, timers, nextTimerId, timeout, intervalId,
                   currentBackgroundIndex, suspended, now, edits>>

\* the 'Change Background' command
Command_Debounced ==
    /\ pc = "loaded"
    /\ \E rnd \in RandomDraws(dom, settings, TargetSelectors) :
          Restyled(updateBackgrounds_Debounced(dom, settings, rnd))
    /\ lastOp' = "updateBackgrounds"
    /\ UNCHANGED <<layout, settings, persisted, pc, tabOpen, listening, timers,
                   nextTimerId, timeout, intervalId, currentBackgroundIndex,
                   suspended, now, edits>>

\* an active-leaf-change event reaches the debounced listener
LeafChange_Debounced(leaf) ==
    /\ listening
    /\ DebouncedCall(leaf)
    /\ lastOp' = "active-leaf-change"
    /\ UNCHANGED <<layout, dom, settings, persisted, pc, tabOpen, listening,
                   observers, intervalId, currentBackgroundIndex, suspended, now,
                   edits>>

\* the timeout set by the debounced listener expires: func(...args)
TimeoutFire_Debounced(t) ==
    /\ t \in timers
    /\ t.kind = "timeout"
    /\ timers' = timers \ {t}
    /\ \E rnd \in RandomDraws(dom, settings, TargetSelectors) :
          Restyled(updateBackgrounds_Debounced(dom, settings, rnd))
    /\ lastOp' = "updateBackgrounds"
    /\ UNCHANGED <<layout, settings, persisted, pc, tabOpen, listening,
                   nextTimerId, timeout, intervalId, currentBackgroundIndex,
                   suspended, now, edits>>

\* the observer's callback runs with the batch of records it has been sent
DeliverMutations_Debounced ==
    /\ observers # <<>>
    /\ observers[1].pending > 0
    /\ LET n == observers[1].pending
       \* each record's pass styles the same elements, so only the draws of
       \* the last pass are left to see: the earlier ones stand as 0
       IN \E last \in RandomDraws(dom, settings, KanbanSelectors) :
             LET rnds == [j \in 1..n |-> IF j = n THEN last ELSE <<0, 0>>]
                 d == handleMutations_Debounced(dom, settings, n, rnds)
             IN /\ dom' = d
                /\ observers' = <<[observers[1] EXCEPT !.pending = RecordsOf(dom, d)]>>
    /\ lastOp' = "handleMutations"
    /\ UNCHANGED <<layout, settings, persisted, pc, tabOpen, listening, timers,
                   nextTimerId, timeout, intervalId, currentBackgroundIndex,
                   suspended, now, edits>>

Unload_Debounced ==
    /\ pc = "loaded"
    /\ observers' = <<>>
    /\ dom' = removeBackgrounds(dom)
    /\ tabOpen' = FALSE
    /\ listening' = FALSE
    /\ pc' = "unloaded"
    /\ lastOp' = "onunload"
    /\ UNCHANGED <<layout, settings, persisted, timers, nextTimerId, timeout,
                   intervalId, currentBackgroundIndex, suspended, now, edits>>

\* the text area's onChange
BackgroundsChange_Debounced(value) ==
    /\ tabOpen
    /\ edits < MaxChanges
    /\ settings' = [settings EXCEPT !.backgrounds = ParseBackgrounds(value)]
    /\ persisted' = settings'
    /\ edits' = edits + 1
    /\ lastOp' = "backgrounds"
    /\ UNCHANGED <<layout, dom, pc, tabOpen, listening, observers, timers,
                   nextTimerId, timeout, intervalId, currentBackgroundIndex,
                   suspended, now>>

\* a slider's onChange (addOpacitySetting)
OpacityChange_Debounced(key, value) ==
    /\ tabOpen
    /\ edits < MaxChanges
    /\ settings' = [settings EXCEPT !.opacitySettings[key] = value]
    /\ persisted' = settings'
    /\ edits' = edits + 1
    /\ lastOp' = "opacity"
    /\ UNCHANGED <<layout, dom, pc, tabOpen, listening, observers, timers,
                   nextTimerId, timeout, intervalId, currentBackgroundIndex,
                   suspended, now>>

\* the host (or the kanban plugin) inserts an element into the tree
HostInsert(e) ==
    /\ ~Attached(dom.children, e)
    /\ Attached(dom.children, HostParent(e))
    /\ dom' = [dom EXCEPT !.children[HostParent(e)] = Append(@, El(e))]
    /\ observers' = Notify(observers, 1)
    /\ lastOp' = "insert"
    /\ UNCHANGED <<layout, settings, persisted, pc, tabOpen, listening, timers,
                   nextTimerId, timeout, intervalId, currentBackgroundIndex,
                   suspended, now, edits>>

\* the applyBackgroundAndOverlay calls one record's pass makes: one per
\* kanban selector that matches an element
KanbanCalls(d) ==
    (IF Len(querySelectorAll(d.children, KanbanLane)) > 0 THEN 1 ELSE 0)
    + (IF Len(querySelectorAll(d.children, KanbanItem)) > 0 THEN 1 ELSE 0)

RECURSIVE handleMutations_Calls(_, _, _)
\* the applyBackgroundAndOverlay calls handleMutations makes for n records
handleMutations_Calls(d, s, n) ==
    IF n = 0 THEN 0
    ELSE KanbanCalls(d)
         + handleMutations_Calls(KanbanPass_Debounced(d, s, <<0, 0>>), s, n - 1)

\* hist: what the last step was handed and what it did
NoNote == [batch |-> 0, calls |-> 0, input |-> <<>>, run |-> 0]
NoteInput(value) == hist' = [NoNote EXCEPT !.input = value]
Forget == hist' = NoNote
NoteBatch ==
    hist' = [batch |-> observers[1].pending,
             calls |-> handleMutations_Calls(dom, settings, observers[1].pending),
             input |-> <<>>,
             \* the callbacks of the observer that have run one after the other
             run   |-> hist.run + 1]

Init_Debounced ==
    /\ layout \in DOMAIN Layouts
    /\ dom = InitialDom(layout)
    /\ settings = NoData
    /\ persisted \in PersistedChoices_Debounced
    /\ pc = "idle"
    /\ tabOpen = FALSE
    /\ listening = FALSE
    /\ observers = <<>>
    /\ timers = {}
    /\ nextTimerId = 1
    /\ timeout = NoTimer
    /\ intervalId = NoTimer
    /\ currentBackgroundIndex = 0
    /\ suspended = <<>>
    /\ now = 0
    /\ edits = 0
    /\ lastOp = "new"
    /\ hist = NoNote

Next_Debounced ==
    \/ NoRecords /\ OnloadBegin_Debounced /\ Forget
    \/ NoRecords /\ OnloadResume_Debounced /\ Forget
    \/ NoRecords /\ Command_Debounced /\ Forget
    \* updateBackgrounds takes no argument: one leaf stands for all
    \/ NoRecords /\ nextTimerId <= MaxLeafChanges /\ LeafChange_Debounced(1) /\ Forget
    \* the clock is left out: the timeout may expire at any later step
    \/ NoRecords /\ \E t \in timers : TimeoutFire_Debounced(t) /\ Forget
    \/ DeliverMutations_Debounced /\ NoteBatch
    \/ NoRecords /\ Unload_Debounced /\ Forget
    \/ NoRecords /\ \E value \in BackgroundInputs :
          BackgroundsChange_Debounced(value) /\ NoteInput(value)
    \/ NoRecords /\ \E key \in SlidersMoved, value \in OpacityInputs :
          OpacityChange_Debounced(key, value) /\ Forget
    \/ HostTask /\ \E e \in Elems : HostInsert(e) /\ Forget

SpecDebounced == Init_Debounced /\ [][Next_Debounced]_vars

----------------------------------------------------------------------------
(* The debounced variant with the clock: the listener's timeout expires
   DebounceWait after the call that set it. *)

MinOf(S) == CHOOSE x \in S : \A y \in S : x <= y

\* time passes, up to the next expiry: a timeout that is due fires first
AdvanceTime ==
    /\ now < MaxTime
    /\ \A t \in timers : t.due > now
    /\ now' = MinOf({now + TimeStep} \cup {t.due : t \in timers})
    /\ lastOp' = "time"
    /\ UNCHANGED <<layout, dom, settings, persisted, pc, tabOpen, listening,
                   observers, timers, nextTimerId, timeout, intervalId,
                   currentBackgroundIndex, suspended, edits>>

\* hist.calls: the calls of the debounced function so far; hist.burst: each
\* of them came less than DebounceWait after the one before
RecordCall(args) ==
    hist' = [hist EXCEPT !.calls = @ + 1,
                         !.lastCallAt = now,
                         !.lastArgs = args,
                         !.burst = @ /\ (hist.calls = 0 \/ now - hist.lastCallAt < DebounceWait)]

RecordInvocation(t) ==
    hist' = [hist EXCEPT !.invoked = Append(@, [at |-> now, args |-> t.args])]

Init_DebounceTimed ==
    /\ layout = Len(Layouts)
    /\ dom = InitialDom(layout)
    /\ settings = NoData
    /\ persisted \in PersistedChoices_Debounced
    /\ pc = "idle"
    /\ tabOpen = FALSE
    /\ listening = FALSE
    /\ observers = <<>>
    /\ timers = {}
    /\ nextTimerId = 1
    /\ timeout = NoTimer
    /\ intervalId = NoTimer
    /\ currentBackgroundIndex = 0
    /\ suspended = <<>>
    /\ now = 0
    /\ edits = 0
    /\ lastOp = "new"
    /\ hist = [calls |-> 0, lastCallAt |-> 0, lastArgs |-> 0, burst |-> TRUE,
               invoked |-> <<>>]

Next_DebounceTimed ==
    \/ NoRecords /\ OnloadBegin_Debounced /\ UNCHANGED hist
    \/ NoRecords /\ OnloadResume_Debounced /\ UNCHANGED hist
    \/ DeliverMutations_Debounced /\ UNCHANGED hist
    \/ NoRecords /\ \E leaf \in LeafArgs :
          hist.calls < MaxCalls /\ LeafChange_Debounced(leaf) /\ RecordCall(leaf)
    \/ NoRecords /\ \E t \in timers :
          t.due <= now /\ TimeoutFire_Debounced(t) /\ RecordInvocation(t)
    \/ NoRecords /\ AdvanceTime /\ UNCHANGED hist

SpecDebounceTimed == Init_DebounceTimed /\ [][Next_DebounceTimed]_vars

----------------------------------------------------------------------------
(* Claims about the debounced variant. *)

IsTarget(e) == \E i \in DOMAIN TargetSelectors : TargetSelectors[i] = Cls(e)

\* the opacity updateBackgrounds passes for the elements of a target class
TargetOpacity(s, class) ==
    LET i == CHOOSE j \in DOMAIN Selectors_Debounced(s) :
                 Selectors_Debounced(s)[j].selector = class
    IN Selectors_Debounced(s)[i].opacity

\* C1: right after a call of updateBackgrounds (the first, or one with
\* unchanged settings after it), every element matched by one of the five
\* target selectors has exactly one overlay child, also when one target is
\* nested inside another.
C1_OneOverlayPerTarget ==
    lastOp = "updateBackgrounds" =>
        \A e \in Elems :
            IsTarget(e) /\ Attached(dom.children, e)
                => Cardinality(OverlayChildren(dom.children, e)) = 1

\* C2: right after onunload no element carries the marker class and no
\* overlay node is left anywhere in the tree.
C2_TeardownComplete ==
    lastOp = "onunload" =>
        /\ \A e \in Elems : ~dom.marked[e]
        /\ CountOverlays(dom.children) = 0

\* C3: once onunload has returned, no step gives an element the marker, an
\* overlay or a background.
C3_NoRestyleAfterUnload ==
    [][pc = "unloaded" =>
          /\ \A e \in Elems : dom'.marked[e] => dom.marked[e]
          /\ \A e \in Elems : dom'.bgImage[e] = dom.bgImage[e]
          /\ CountOverlays(dom'.children) = CountOverlays(dom.children)]_vars

\* C12: a batch of mutation records makes handleMutations run one restricted
\* pass: one applyBackgroundAndOverlay call per kanban selector that matches
\* an element, whatever the number of records.
C12_OnePassPerBatch ==
    lastOp = "handleMutations" => hist.calls = KanbanCalls(dom)

\* C13: the background list is never empty, so getRandomBackground always
\* returns one of its entries.
C13_BackgroundsNonEmpty ==
    pc \in {"loaded", "unloaded"} =>
        /\ Len(settings.backgrounds) > 0
        /\ \A r \in RandomIndex(Len(settings.backgrounds)) :
              InSeq(getRandomBackground(settings, r), settings.backgrounds)

\* the words of the text that stand before its k-th comma and after the one
\* before it, blanks left out
FieldWords(value, k) ==
    LET at == SelectSeq([i \in 1..Len(value) |-> i],
                  LAMBDA i : /\ value[i] \notin {Comma, Space}
                             /\ Cardinality({j \in 1..(i - 1) : value[j] = Comma}) = k - 1)
    IN [n \in DOMAIN at |-> value[at[n]]]

\* the entries of the text that are one well-formed URL, in their order
ValidEntries(value) ==
    LET fields == [k \in 1..(Cardinality({j \in DOMAIN value : value[j] = Comma}) + 1)
                      |-> FieldWords(value, k)]
        good == SelectSeq(fields, LAMBDA f : Len(f) = 1 /\ f[1] \in 1..3)
    IN [n \in DOMAIN good |-> good[n][1]]

\* C14: after the text area's handler the background list is the trimmed
\* entries of the text that are well-formed URLs, in their order, and that
\* list has been saved.
C14_InvalidEntriesDropped ==
    lastOp = "backgrounds" =>
        /\ settings.backgrounds = ValidEntries(hist.input)
        /\ persisted.backgrounds = settings.backgrounds

\* a text with a blank-padded valid entry, an invalid one and a valid one
C14_Witness ==
    /\ lastOp = "backgrounds"
    /\ Len(hist.input) = 8
    /\ settings.backgrounds = <<1, 3>>
    /\ persisted.backgrounds = <<1, 3>>

\* C15: no element has more than one overlay child, whatever the order in
\* which the command, the debounced listener and the observer run their
\* passes.
C15_AtMostOneOverlay ==
    \A e \in ElemsOf(layout) : Cardinality(OverlayChildren(dom.children, e)) <= 1

\* the debounced listener's pass has run after the observer's pass styled an
\* inserted kanban element
C15_Witness ==
    /\ lastOp = "updateBackgrounds"
    /\ nextTimerId = 2
    /\ timers = {}
    /\ \E e \in ElemsOf(layout) :
          IsKanban(e) /\ Cardinality(OverlayChildren(dom.children, e)) = 1
    /\ \E e \in ElemsOf(layout) :
          ~IsKanban(e) /\ Cardinality(OverlayChildren(dom.children, e)) = 1

\* C18: the records queued by the overlays a pass appends do not keep the
\* observer running: of the callbacks that run one after the other the
\* second has nothing left to append, and leaves no record pending.
C18_FeedbackTerminates ==
    /\ hist.run <= 2
    /\ hist.run = 2 => NoRecords

\* the observer's pass appended an overlay, was called again for it, and
\* appended nothing more
C18_Witness ==
    /\ lastOp = "handleMutations"
    /\ hist.run = 2
    /\ NoRecords
    /\ \E e \in ElemsOf(layout) :
          IsKanban(e) /\ Cardinality(OverlayChildren(dom.children, e)) = 1

\* C6: while every call of the debounced function has come less than
\* DebounceWait after the one before, func has not run as long as the
\* timeout is pending, and once it has expired func has run exactly once,
\* DebounceWait after the last call and with the last call's arguments.
C6_DebounceCoalesces ==
    hist.calls >= 1 /\ hist.burst =>
        IF timers # {}
        THEN /\ hist.invoked = <<>>
             /\ \A t \in timers : t.due = hist.lastCallAt + DebounceWait /\ t.args = hist.lastArgs
             /\ Cardinality(timers) = 1
        ELSE hist.invoked = <<[at |-> hist.lastCallAt + DebounceWait, args |-> hist.lastArgs]>>

\* five calls inside the quiet window, and func has run
C6_Witness ==
    /\ hist.calls = 5
    /\ hist.burst
    /\ Len(hist.invoked) = 1

\* C10: right after a restyle pass every overlay on an element of a target
\* carries the opacity now set for that target, and the element has no
\* second overlay.
C10_OverlayAlphaFollowsSetting ==
    lastOp = "updateBackgrounds" =>
        \A e \in Elems :
            IsTarget(e) /\ Attached(dom.children, e) =>
                /\ Cardinality(OverlayChildren(dom.children, e)) <= 1
                /\ \A i \in OverlayChildren(dom.children, e) :
                      dom.children[e][i].alpha = TargetOpacity(settings, Cls(e))

----------------------------------------------------------------------------
(* The interval + opacity variant: src/unnamed/part_001 lines 396-707. *)

DEFAULT_SETTINGS_Interval ==
    [interval        |-> 3000,
     \* the same URL twice
     backgrounds     |-> <<1, 1>>,
     opacitySettings |-> [sidebar            |-> 5,
                          viewContent        |-> 5,
                          tabHeaderContainer |-> 5,
                          tabHeader          |-> 5,
                          workspaceLeaf      |-> 5,
                          kanbanItem         |-> 2]]

PersistedChoices_Interval == {NoData, [backgrounds |-> <<1, 2, 3>>]}
\* parseInt of what the user can type into the interval field
IntervalInputs == {500}
\* value.split(',').map(v => v.trim()): never an empty list
BackgroundInputs_Interval == {<<2>>}

\* (a + 1) % n as JavaScript computes it
NextIndex(a, n) == IF a = NaN \/ n = 0 THEN NaN ELSE (a + 1) % n

RECURSIVE ApplyEach_Interval(_, _, _, _)
ApplyEach_Interval(d, els, url, opacity) ==
    IF els = <<>> THEN d
    ELSE LET e == Head(els)
             styled == [d EXCEPT !.bgImage[e] = url]
             done == IF querySelectorOverlay(styled.children, e) = <<>>
                     THEN [styled EXCEPT !.children[e] = Append(@, Ov(opacity))]
                     ELSE styled
         IN ApplyEach_Interval(done, Tail(els), url, opacity)

applyBackgroundAndOverlay_Interval(d, els, backgroundImageUrl, opacity) ==
    ApplyEach_Interval(d, els, backgroundImageUrl, opacity)

\* the four styling calls of updateBackgrounds
updateBackgrounds_Interval(d, s, index) ==
    LET backgroundImageUrl == At(s.backgrounds, index)
        d1 == applyBackgroundAndOverlay_Interval(d,
                  querySelectorAll(d.children, ViewContent), backgroundImageUrl,
                  Get(s.opacitySettings, "viewContent"))
        d2 == applyBackgroundAndOverlay_Interval(d1,
                  querySelectorAll(d1.children, TabHeaderContainer), backgroundImageUrl,
                  Get(s.opacitySettings, "tabHeaderContainer"))
        d3 == applyBackgroundAndOverlay_Interval(d2,
                  querySelectorAll(d2.children, TabHeader), backgroundImageUrl,
                  Get(s.opacitySettings, "tabHeader"))
    IN applyBackgroundAndOverlay_Interval(d3,
           querySelectorAll(d3.children, WorkspaceLeaf), backgroundImageUrl,
           Get(s.opacitySettings, "workspaceLeaf"))

\* the callback of an observer created by updateBackgrounds, for one record
\* with added nodes; url: the backgroundImageUrl the closure has captured
KanbanPass_Interval(d, s, url) ==
    LET kanbanLane == querySelectorAll(d.children, KanbanLane)
        afterLanes == IF Len(kanbanLane) > 0
                      THEN applyBackgroundAndOverlay_Interval(d, kanbanLane, url,
                               Get(s.opacitySettings, "viewContent"))
                      ELSE d
        kanbanItems == querySelectorAll(afterLanes.children, KanbanItem)
    IN IF Len(kanbanItems) > 0
       THEN applyBackgroundAndOverlay_Interval(afterLanes, kanbanItems, url,
                Get(s.opacitySettings, "kanbanItem"))
       ELSE afterLanes

RECURSIVE ObserverCallback_Interval(_, _, _, _)
ObserverCallback_Interval(d, s, url, n) ==
    IF n = 0 THEN d
    ELSE ObserverCallback_Interval(KanbanPass_Interval(d, s, url), s, url, n - 1)

\* this.intervalId = window.setInterval(tick, this.settings.interval)
startBackgroundChange ==
    /\ timers' = timers \cup {[id |-> nextTimerId, kind |-> "interval", due |-> 0, args |-> 0]}
    /\ intervalId' = nextTimerId
    /\ nextTimerId' = nextTimerId + 1

\* updateBackgrounds as one step: the overlays it appends are reported to
\* the observers connected so far, and then one more observer is connected
Restyled_Interval(s, index) ==
    LET d == updateBackgrounds_Interval(dom, s, index)
    IN /\ dom' = d
       /\ observers' = Append(Notify(observers, CountOverlays(d.children)
                                                - CountOverlays(dom.children)),
                              [url |-> At(s.backgrounds, index), pending |-> 0])

OnloadBegin_Interval ==
    /\ pc = "idle"
    /\ pc' = "loading"
    /\ lastOp' = "onload"
    /\ UNCHANGED <<layout, dom, settings, persisted, tabOpen, listening, observers,
                   timers, nextTimerId, timeout, intervalId, currentBackgroundIndex,
                   suspended, now, edits>>

\* onload goes on after its await, also when onunload has run meanwhile
OnloadResume_Interval ==
    /\ pc \in {"loading", "loading-unloaded"}
    /\ settings' = ObjectAssign(DEFAULT_SETTINGS_Interval, persisted)
    /\ startBackgroundChange
    /\ tabOpen' = TRUE
    /\ listening' = TRUE
    /\ pc' = IF pc = "loading" THEN "loaded" ELSE "unloaded"
    /\ lastOp' = "onload"
    /\ UNCHANGED <<layout, dom, persisted, observers, timeout,
                   currentBackgroundIndex, suspended, now, edits>>

Unload_Interval ==
    /\ pc \in {"loading", "loaded"}
    /\ timers' = ClearTimer(timers, intervalId)
    /\ tabOpen' = FALSE
    /\ listening' = FALSE
    /\ pc' = IF pc = "loading" THEN "loading-unloaded" ELSE "unloaded"
    /\ lastOp' = "onunload"
    /\ UNCHANGED <<layout, dom, settings, persisted, observers, nextTimerId,
                   timeout, intervalId, currentBackgroundIndex, suspended, now, edits>>

\* the interval timer's callback
Tick_Interval(t) ==
    /\ t \in timers
    /\ t.kind = "interval"
    /\ Len(observers) < MaxObservers
    /\ LET index == NextIndex(currentBackgroundIndex, Len(settings.backgrounds))
       IN /\ currentBackgroundIndex' = index
          /\ Restyled_Interval(settings, index)
    /\ lastOp' = "tick"
    /\ UNCHANGED <<layout, settings, persisted, pc, tabOpen, listening, timers,
                   nextTimerId, timeout, intervalId, suspended, now, edits>>

LeafChange_Interval ==
    /\ listening
    /\ Len(observers) < MaxObservers
    /\ Restyled_Interval(settings, currentBackgroundIndex)
    /\ lastOp' = "active-leaf-change"
    /\ UNCHANGED <<layout, settings, persisted, pc, tabOpen, listening, timers,
                   nextTimerId, timeout, intervalId, currentBackgroundIndex,
                   suspended, now, edits>>

\* observers are notified in the order of their creation
DeliverMutations_Interval(i) ==
    /\ i \in DOMAIN observers
    /\ observers[i].pending > 0
    /\ \A j \in 1..(i - 1) : observers[j].pending = 0
    /\ LET d == ObserverCallback_Interval(dom, settings, observers[i].url,
                                          observers[i].pending)
       IN /\ dom' = d
          /\ observers' = Notify([observers EXCEPT ![i].pending = 0],
                                 CountOverlays(d.children) - CountOverlays(dom.children))
    /\ lastOp' = "observer"
    /\ UNCHANGED <<layout, settings, persisted, pc, tabOpen, listening, timers,
                   nextTimerId, timeout, intervalId, currentBackgroundIndex,
                   suspended, now, edits>>

\* a setting handler up to its await of saveSettings
Suspend(kind) == suspended' = [suspended EXCEPT ![kind] = @ + 1]

IntervalChange_Interval(value) ==
    /\ tabOpen
    /\ edits < MaxEdits
    /\ settings' = [settings EXCEPT !.interval = value]
    /\ persisted' = settings'
    /\ Suspend("interval")
    /\ edits' = edits + 1
    /\ lastOp' = "interval"
    /\ UNCHANGED <<layout, dom, pc, tabOpen, listening, observers, timers,
                   nextTimerId, timeout, intervalId, currentBackgroundIndex, now>>

\* the interval handler after its await: clear, restart, restyle
IntervalResume_Interval ==
    /\ suspended["interval"] > 0
    /\ Len(observers) < MaxObservers
    /\ suspended' = [suspended EXCEPT !["interval"] = @ - 1]
    /\ timers' = ClearTimer(timers, intervalId)
                 \cup {[id |-> nextTimerId, kind |-> "interval", due |-> 0, args |-> 0]}
    /\ intervalId' = nextTimerId
    /\ nextTimerId' = nextTimerId + 1
    /\ Restyled_Interval(settings, currentBackgroundIndex)
    /\ lastOp' = "updateBackgrounds"
    /\ UNCHANGED <<layout, settings, persisted, pc, tabOpen, listening, timeout,
                   currentBackgroundIndex, now, edits>>

BackgroundsChange_Interval(value) ==
    /\ tabOpen
    /\ edits < MaxEdits
    /\ settings' = [settings EXCEPT !.backgrounds = value]
    /\ persisted' = settings'
    /\ Suspend("restyle")
    /\ edits' = edits + 1
    /\ lastOp' = "backgrounds"
    /\ UNCHANGED <<layout, dom, pc, tabOpen, listening, observers, timers,
                   nextTimerId, timeout, intervalId, currentBackgroundIndex, now>>

\* the class whose overlays the slider of an opacity key restyles at once
SliderTarget(key) ==
    CASE key = "sidebar"            -> TabHeaderContainer
      [] key = "viewContent"        -> TabHeaderContainer
      [] key = "tabHeaderContainer" -> TabHeader
      [] key = "tabHeader"          -> WorkspaceLeaf
      [] key = "workspaceLeaf"      -> KanbanLane
      [] key = "kanbanItem"         -> KanbanItem

RECURSIVE HasAncestorOrSelf(_, _, _)
\* e, or an element above it in the tree, has the class
HasAncestorOrSelf(l, e, class) ==
    e # Body /\ (Layouts[l].cls[e] = class
                 \/ HasAncestorOrSelf(l, Layouts[l].parent[e], class))

\* querySelectorAll("." + class + " .background-overlay").forEach(o =>
\*     o.style.background = rgba(255, 255, 255, value))
SetOverlaysBelow(d, class, value) ==
    [d EXCEPT !.children =
        [n \in Nodes |->
            [i \in DOMAIN d.children[n] |->
                IF d.children[n][i].kind = "ov" /\ HasAncestorOrSelf(layout, n, class)
                THEN Ov(value) ELSE d.children[n][i]]]]

OpacityKeys_Interval == DOMAIN DEFAULT_SETTINGS_Interval.opacitySettings

OpacityChange_Interval(key, value) ==
    /\ tabOpen
    /\ edits < MaxChanges
    /\ settings' = [settings EXCEPT !.opacitySettings[key] = value]
    /\ dom' = SetOverlaysBelow(dom, SliderTarget(key), value)
    /\ persisted' = settings'
    /\ Suspend("restyle")
    /\ edits' = edits + 1
    /\ lastOp' = "opacity"
    /\ UNCHANGED <<layout, pc, tabOpen, listening, observers, timers,
                   nextTimerId, timeout, intervalId, currentBackgroundIndex, now>>

\* the backgrounds handler or a slider's handler after its await
RestyleResume_Interval ==
    /\ suspended["restyle"] > 0
    /\ Len(observers) < MaxObservers
    /\ suspended' = [suspended EXCEPT !["restyle"] = @ - 1]
    /\ Restyled_Interval(settings, currentBackgroundIndex)
    /\ lastOp' = "updateBackgrounds"
    /\ UNCHANGED <<layout, settings, persisted, pc, tabOpen, listening, timers,
                   nextTimerId, timeout, intervalId, currentBackgroundIndex, now,
                   edits>>

\* the vaults of this specification hold no kanban board: the host inserts
\* nothing after the initial layout
PlainLayouts == {1, 2, 4}

Init_Interval ==
    /\ layout \in PlainLayouts
    /\ dom = InitialDom(layout)
    /\ settings = NoData
    /\ persisted \in PersistedChoices_Interval
    /\ pc = "idle"
    /\ tabOpen = FALSE
    /\ listening = FALSE
    /\ observers = <<>>
    /\ timers = {}
    /\ nextTimerId = 1
    /\ timeout = NoTimer
    /\ intervalId = NoTimer
    /\ currentBackgroundIndex = 0
    /\ suspended = [interval |-> 0, restyle |-> 0]
    /\ now = 0
    /\ edits = 0
    /\ lastOp = "new"
    /\ hist = <<>>

Next_Interval ==
    \/ NoRecords /\ OnloadBegin_Interval /\ UNCHANGED hist
    \/ NoRecords /\ OnloadResume_Interval /\ UNCHANGED hist
    \/ NoRecords /\ Unload_Interval /\ UNCHANGED hist
    \/ NoRecords /\ \E t \in timers : Tick_Interval(t) /\ UNCHANGED hist
    \/ NoRecords /\ LeafChange_Interval /\ UNCHANGED hist
    \/ \E i \in DOMAIN observers : DeliverMutations_Interval(i) /\ UNCHANGED hist
    \/ NoRecords /\ \E value \in IntervalInputs : IntervalChange_Interval(value) /\ UNCHANGED hist
    \/ NoRecords /\ IntervalResume_Interval /\ UNCHANGED hist
    \/ NoRecords /\ \E value \in BackgroundInputs_Interval :
          BackgroundsChange_Interval(value) /\ UNCHANGED hist
    \/ NoRecords /\ \E key \in OpacityKeys_Interval, value \in OpacityInputs :
          OpacityChange_Interval(key, value) /\ UNCHANGED hist
    \/ NoRecords /\ RestyleResume_Interval /\ UNCHANGED hist
    \/ HostTask /\ \E e \in Elems : HostInsert(e) /\ UNCHANGED hist

SpecInterval == Init_Interval /\ [][Next_Interval]_vars

IntervalTimers == {t \in timers : t.kind = "interval"}
Unloaded == pc \in {"unloaded", "loading-unloaded"}

\* C4: at most one interval timer is active.
C4_AtMostOneTimer == Cardinality(IntervalTimers) <= 1

\* one interval handler has cleared the timer and started the next while
\* another is still suspended at its await
C4_Witness ==
    /\ suspended["interval"] = 1
    /\ nextTimerId = 3
    /\ Cardinality(IntervalTimers) = 1

\* C5: once onunload has run, no step is a timer tick and the cycle index
\* stays what it is.
C5_NoTickAfterUnload ==
    [][Unloaded => lastOp' # "tick" /\ currentBackgroundIndex' = currentBackgroundIndex]_vars

\* C16: a restyle pass changes the tree only: the settings, the cycle
\* index and the timer handle are what they were, and no pass adds an
\* observer to the one that is subscribed: one at most ever is.
C16_PassOnlyStyles ==
    /\ [](Len(observers) <= 1)
    /\ [][lastOp' = "active-leaf-change" =>
             /\ settings' = settings
             /\ currentBackgroundIndex' = currentBackgroundIndex
             /\ intervalId' = intervalId]_vars

\* the target whose overlays a slider is there for
KeyTarget(key) ==
    CASE key = "viewContent"        -> ViewContent
      [] key = "tabHeaderContainer" -> TabHeaderContainer
      [] key = "tabHeader"          -> TabHeader
      [] key = "workspaceLeaf"      -> WorkspaceLeaf
      [] key = "kanbanItem"         -> KanbanItem

\* C17: a slider's handler sets the alpha of every overlay on the elements of
\* its own target to the chosen value, and leaves every other overlay as it
\* was.
C17_SliderSetsOwnOverlays ==
    [][lastOp' = "opacity" =>
          \A K \in OpacityKeys_Interval \ {"sidebar"} :
              settings'.opacitySettings[K] # settings.opacitySettings[K] =>
                  \A e \in ElemsOf(layout) :
                      \A i \in DOMAIN dom.children[e] :
                          dom.children[e][i].kind = "ov" =>
                              dom'.children[e][i].alpha =
                                  IF Cls(e) = KeyTarget(K)
                                  THEN settings'.opacitySettings[K]
                                  ELSE dom.children[e][i].alpha]_vars

\* C8: the cycle index is an index of the background list.
C8_IndexInRange ==
    pc \in {"loaded", "unloaded"} =>
        currentBackgroundIndex \in 0..(Len(settings.backgrounds) - 1)

----------------------------------------------------------------------------
(* The cycling variant: src/unnamed/part_000. *)

DEFAULT_SETTINGS_Cycle ==
    [interval    |-> 3000,
     \* the same URL twice
     backgrounds |-> <<1, 1>>]

PersistedChoices_Cycle == {NoData, [backgrounds |-> <<1, 2, 3>>]}
BackgroundInputs_Cycle == {<<2>>, <<3, 2>>}

\* rgba(255, 255, 255, 0.5), in tenths
FixedOverlayAlpha == 5

\* element.style.backgroundImage = `${value}`: the text "undefined" is no
\* CSS image, and the style keeps what it had
SetBackgroundImage(old, value) == IF value = Undefined THEN old ELSE value

RECURSIVE applyBackgroundAndOverlay_Cycle(_, _, _)
applyBackgroundAndOverlay_Cycle(d, els, backgroundImageUrl) ==
    IF els = <<>> THEN d
    ELSE LET e == Head(els)
             styled == [d EXCEPT !.bgImage[e] = SetBackgroundImage(@, backgroundImageUrl)]
             done == IF querySelectorOverlay(styled.children, e) = <<>>
                     THEN [styled EXCEPT !.children[e] = Append(@, Ov(FixedOverlayAlpha))]
                     ELSE styled
         IN applyBackgroundAndOverlay_Cycle(done, Tail(els), backgroundImageUrl)

updateBackgrounds_Cycle(d, s, index) ==
    LET backgroundImageUrl == At(s.backgrounds, index)
        d1 == applyBackgroundAndOverlay_Cycle(d,
                  querySelectorAll(d.children, ViewContent), backgroundImageUrl)
    IN applyBackgroundAndOverlay_Cycle(d1,
           querySelectorAll(d1.children, TabHeaderContainer), backgroundImageUrl)

OnloadBegin_Cycle ==
    /\ pc = "idle"
    /\ pc' = "loading"
    /\ lastOp' = "onload"
    /\ UNCHANGED <<layout, dom, settings, persisted, tabOpen, listening, observers,
                   timers, nextTimerId, timeout, intervalId, currentBackgroundIndex,
                   suspended, now, edits>>

OnloadResume_Cycle ==
    /\ pc \in {"loading", "loading-unloaded"}
    /\ settings' = ObjectAssign(DEFAULT_SETTINGS_Cycle, persisted)
    /\ startBackgroundChange
    /\ tabOpen' = TRUE
    /\ listening' = TRUE
    /\ pc' = IF pc = "loading" THEN "loaded" ELSE "unloaded"
    /\ lastOp' = "onload"
    /\ UNCHANGED <<layout, dom, persisted, observers, timeout,
                   currentBackgroundIndex, suspended, now, edits>>

Unload_Cycle ==
    /\ pc \in {"loading", "loaded"}
    /\ timers' = ClearTimer(timers, intervalId)
    /\ tabOpen' = FALSE
    /\ listening' = FALSE
    /\ pc' = IF pc = "loading" THEN "loading-unloaded" ELSE "unloaded"
    /\ lastOp' = "onunload"
    /\ UNCHANGED <<layout, dom, settings, persisted, observers, nextTimerId,
                   timeout, intervalId, currentBackgroundIndex, suspended, now, edits>>

Tick_Cycle(t) ==
    /\ t \in timers
    /\ t.kind = "interval"
    /\ LET index == NextIndex(currentBackgroundIndex, Len(settings.backgrounds))
       IN /\ currentBackgroundIndex' = index
          /\ dom' = updateBackgrounds_Cycle(dom, settings, index)
    /\ lastOp' = "tick"
    /\ UNCHANGED <<layout, settings, persisted, pc, tabOpen, listening, observers,
                   timers, nextTimerId, timeout, intervalId, suspended, now, edits>>

\* both active-leaf-change listeners run, one after the other
LeafChange_Cycle ==
    /\ listening
    /\ dom' = updateBackgrounds_Cycle(
                  updateBackgrounds_Cycle(dom, settings, currentBackgroundIndex),
                  settings, currentBackgroundIndex)
    /\ lastOp' = "updateBackgrounds"
    /\ UNCHANGED <<layout, settings, persisted, pc, tabOpen, listening, observers,
                   timers, nextTimerId, timeout, intervalId, currentBackgroundIndex,
                   suspended, now, edits>>

\* the interval field's onChange: the running timer keeps its old interval
IntervalChange_Cycle(value) ==
    /\ tabOpen
    /\ edits < MaxEdits
    /\ settings' = [settings EXCEPT !.interval = value]
    /\ persisted' = settings'
    /\ edits' = edits + 1
    /\ lastOp' = "interval"
    /\ UNCHANGED <<layout, dom, pc, tabOpen, listening, observers, timers,
                   nextTimerId, timeout, intervalId, currentBackgroundIndex,
                   suspended, now>>

BackgroundsChange_Cycle(value) ==
    /\ tabOpen
    /\ edits < MaxEdits
    /\ settings' = [settings EXCEPT !.backgrounds = value]
    /\ persisted' = settings'
    /\ Suspend("restyle")
    /\ edits' = edits + 1
    /\ lastOp' = "backgrounds"
    /\ UNCHANGED <<layout, dom, pc, tabOpen, listening, observers, timers,
                   nextTimerId, timeout, intervalId, currentBackgroundIndex, now>>

\* the backgrounds handler after its await
RestyleResume_Cycle ==
    /\ suspended["restyle"] > 0
    /\ suspended' = [suspended EXCEPT !["restyle"] = @ - 1]
    /\ dom' = updateBackgrounds_Cycle(dom, settings, currentBackgroundIndex)
    /\ lastOp' = "updateBackgrounds"
    /\ UNCHANGED <<layout, settings, persisted, pc, tabOpen, listening, observers,
                   timers, nextTimerId, timeout, intervalId, currentBackgroundIndex,
                   now, edits>>

\* hist.start: the cycle index before the first of the timer ticks that have
\* run in a row; hist.ticks: how many they are
RunGoesOn == hist' = [hist EXCEPT !.ticks = @ + 1]
RunEnds == hist' = [start |-> currentBackgroundIndex', ticks |-> 0]

Init_Cycle ==
    /\ layout \in PlainLayouts
    /\ dom = InitialDom(layout)
    /\ settings = NoData
    /\ persisted \in PersistedChoices_Cycle
    /\ pc = "idle"
    /\ tabOpen = FALSE
    /\ listening = FALSE
    /\ observers = <<>>
    /\ timers = {}
    /\ nextTimerId = 1
    /\ timeout = NoTimer
    /\ intervalId = NoTimer
    /\ currentBackgroundIndex = 0
    /\ suspended = [interval |-> 0, restyle |-> 0]
    /\ now = 0
    /\ edits = 0
    /\ lastOp = "new"
    /\ hist = [start |-> 0, ticks |-> 0]

Next_Cycle ==
    \/ OnloadBegin_Cycle /\ RunEnds
    \/ OnloadResume_Cycle /\ RunEnds
    \/ Unload_Cycle /\ RunEnds
    \/ \E t \in timers : hist.ticks < MaxTicks /\ Tick_Cycle(t) /\ RunGoesOn
    \/ LeafChange_Cycle /\ RunEnds
    \/ \E value \in IntervalInputs : IntervalChange_Cycle(value) /\ RunEnds
    \/ \E value \in BackgroundInputs_Cycle : BackgroundsChange_Cycle(value) /\ RunEnds
    \/ RestyleResume_Cycle /\ RunEnds

SpecCycle == Init_Cycle /\ [][Next_Cycle]_vars

\* C7: after N timer ticks in a row, N >= 1 the length of the background
\* list, the cycle index is what it was before the first of them; and a
\* tick takes the index to (old + 1) mod N.
C7_TicksWrapAround ==
    /\ [](LET N == IF pc \in {"loaded", "unloaded"} THEN Len(settings.backgrounds) ELSE 0
          IN N >= 1 /\ hist.ticks = N => currentBackgroundIndex = hist.start)
    /\ [][lastOp' = "tick" /\ Len(settings.backgrounds) >= 1 =>
             currentBackgroundIndex' = (currentBackgroundIndex + 1) % Len(settings.backgrounds)]_vars

----------------------------------------------------------------------------
(* The first variant: src/main.ts. *)

DEFAULT_SETTINGS_Main ==
    [interval    |-> 3000,
     \* the same URL twice
     backgrounds |-> <<1, 1>>]

\* what data.json may hold when the plugin starts
PersistedChoices_Main == {NoData, [backgrounds |-> <<1, 2, 3>>]}
\* the textarea's content, split at commas and trimmed
BackgroundInputs_Main == {<<2>>, <<3, 2>>}

RECURSIVE StyleEach_Main(_, _, _, _)
\* titleBarTexts.forEach((titleBarText, index) => ...): the callback's second
\* parameter, the element's position in the list, hides the closure's index
StyleEach_Main(d, s, els, index) ==
    IF els = <<>> THEN d
    ELSE LET titleBarText == Head(els)
             styled == [d EXCEPT !.bgImage[titleBarText] =
                                  SetBackgroundImage(@, At(s.backgrounds, index))]
             done == IF querySelectorOverlay(styled.children, titleBarText) = <<>>
                     THEN [styled EXCEPT !.children[titleBarText] =
                                             Append(@, Ov(FixedOverlayAlpha))]
                     ELSE styled
         IN StyleEach_Main(done, s, Tail(els), index + 1)

OnloadBegin_Main ==
    /\ pc = "idle"
    /\ pc' = "loading"
    /\ lastOp' = "onload"
    /\ UNCHANGED <<layout, dom, settings, persisted, tabOpen, listening, observers,
                   timers, nextTimerId, timeout, intervalId, currentBackgroundIndex,
                   suspended, now, edits, hist>>

\* startBackgroundChange: let index = 0, and the timer
OnloadResume_Main ==
    /\ pc \in {"loading", "loading-unloaded"}
    /\ settings' = ObjectAssign(DEFAULT_SETTINGS_Main, persisted)
    /\ currentBackgroundIndex' = 0
    /\ startBackgroundChange
    /\ tabOpen' = TRUE
    /\ pc' = IF pc = "loading" THEN "loaded" ELSE "unloaded"
    /\ lastOp' = "onload"
    /\ UNCHANGED <<layout, dom, persisted, listening, observers, timeout,
                   suspended, now, edits, hist>>

Unload_Main ==
    /\ pc \in {"loading", "loaded"}
    /\ timers' = ClearTimer(timers, intervalId)
    /\ tabOpen' = FALSE
    /\ pc' = IF pc = "loading" THEN "loading-unloaded" ELSE "unloaded"
    /\ lastOp' = "onunload"
    /\ UNCHANGED <<layout, dom, settings, persisted, listening, observers,
                   nextTimerId, timeout, intervalId, currentBackgroundIndex,
                   suspended, now, edits, hist>>

\* the timer's callback: style every .view-content, then advance the index
Tick_Main(t) ==
    /\ t \in timers
    /\ t.kind = "interval"
    /\ dom' = StyleEach_Main(dom, settings, querySelectorAll(dom.children, ViewContent), 0)
    /\ currentBackgroundIndex' = NextIndex(currentBackgroundIndex, Len(settings.backgrounds))
    /\ lastOp' = "tick"
    /\ UNCHANGED <<layout, settings, persisted, pc, tabOpen, listening, observers,
                   timers, nextTimerId, timeout, intervalId, suspended, now, edits,
                   hist>>

IntervalChange_Main(value) ==
    /\ tabOpen
    /\ edits < MaxEdits
    /\ settings' = [settings EXCEPT !.interval = value]
    /\ persisted' = settings'
    /\ edits' = edits + 1
    /\ lastOp' = "interval"
    /\ UNCHANGED <<layout, dom, pc, tabOpen, listening, observers, timers,
                   nextTimerId, timeout, intervalId, currentBackgroundIndex,
                   suspended, now, hist>>

BackgroundsChange_Main(value) ==
    /\ tabOpen
    /\ edits < MaxEdits
    /\ settings' = [settings EXCEPT !.backgrounds = value]
    /\ persisted' = settings'
    /\ edits' = edits + 1
    /\ lastOp' = "backgrounds"
    /\ UNCHANGED <<layout, dom, pc, tabOpen, listening, observers, timers,
                   nextTimerId, timeout, intervalId, currentBackgroundIndex,
                   suspended, now, hist>>

Init_Main ==
    /\ layout \in PlainLayouts
    /\ dom = InitialDom(layout)
    /\ settings = NoData
    /\ persisted \in PersistedChoices_Main
    /\ pc = "idle"
    /\ tabOpen = FALSE
    /\ listening = FALSE
    /\ observers = <<>>
    /\ timers = {}
    /\ nextTimerId = 1
    /\ timeout = NoTimer
    /\ intervalId = NoTimer
    /\ currentBackgroundIndex = 0
    /\ suspended = <<>>
    /\ now = 0
    /\ edits = 0
    /\ lastOp = "new"
    /\ hist = <<>>

Next_Main ==
    \/ OnloadBegin_Main
    \/ OnloadResume_Main
    \/ Unload_Main
    \/ \E t \in timers : Tick_Main(t)
    \/ \E value \in IntervalInputs : IntervalChange_Main(value)
    \/ \E value \in BackgroundInputs_Main : BackgroundsChange_Main(value)

SpecMain == Init_Main /\ [][Next_Main]_vars

\* C9: right after a timer tick every .view-content element carries the
\* background stored at the cycle index the tick has advanced to, so all of
\* them carry the same one.
C9_TickStylesAtNewIndex ==
    lastOp = "tick" =>
        \A e \in Elems :
            Cls(e) = ViewContent /\ Attached(dom.children, e) =>
                /\ dom.bgImage[e] = At(settings.backgrounds, currentBackgroundIndex)
                /\ \A f \in Elems :
                      Cls(f) = ViewContent /\ Attached(dom.children, f)
                          => dom.bgImage[f] = dom.bgImage[e]

----------------------------------------------------------------------------
(* loadSettings of the debounced variant, over what data.json may hold. *)

\* an opacity that is no default
StoredOpacity == 8
\* opacitySettings objects that hold some of the keys
StoredOpacitySettings ==
    UNION {[K -> {StoredOpacity}] : K \in SUBSET OpacityKeys_Debounced}
StoredBackgrounds == {<<>>, <<2>>}
DataChoices ==
    {NoData}
    \cup {[backgrounds |-> b] : b \in StoredBackgrounds}
    \cup {[opacitySettings |-> o] : o \in StoredOpacitySettings}
    \cup {[backgrounds |-> b, opacitySettings |-> o] :
             b \in StoredBackgrounds, o \in StoredOpacitySettings}

\* this.settings = Object.assign({}, DEFAULT_SETTINGS, await this.loadData())
loadSettings ==
    /\ pc = "idle"
    /\ settings' = ObjectAssign(DEFAULT_SETTINGS_Debounced, persisted)
    /\ pc' = "settings-loaded"
    /\ lastOp' = "loadSettings"
    /\ UNCHANGED <<layout, dom, persisted, tabOpen, listening, observers, timers,
                   nextTimerId, timeout, intervalId, currentBackgroundIndex,
                   suspended, now, edits, hist>>

Init_Load ==
    /\ layout = 1
    /\ dom = InitialDom(layout)
    /\ settings = NoData
    /\ persisted \in DataChoices
    /\ pc = "idle"
    /\ tabOpen = FALSE
    /\ listening = FALSE
    /\ observers = <<>>
    /\ timers = {}
    /\ nextTimerId = 1
    /\ timeout = NoTimer
    /\ intervalId = NoTimer
    /\ currentBackgroundIndex = 0
    /\ suspended = <<>>
    /\ now = 0
    /\ edits = 0
    /\ lastOp = "new"
    /\ hist = <<>>

Next_Load == loadSettings

SpecLoad == Init_Load /\ [][Next_Load]_vars

\* C11: the loaded settings hold, for every key, top-level or nested, the
\* persisted value where the persisted data has the key and the default
\* where it has not.
C11_MergeKeepsDefaults ==
    pc = "settings-loaded" =>
        /\ settings.backgrounds =
              IF "backgrounds" \in DOMAIN persisted
              THEN persisted.backgrounds
              ELSE DEFAULT_SETTINGS_Debounced.backgrounds
        /\ \A k \in OpacityKeys_Debounced :
              Get(settings.opacitySettings, k) =
                 IF "opacitySettings" \in DOMAIN persisted
                    /\ k \in DOMAIN persisted.opacitySettings
                 THEN persisted.opacitySettings[k]
                 ELSE DEFAULT_SETTINGS_Debounced.opacitySettings[k]

====
